---- MODULE Spec2Model ----
(***************************************************************************)
(* Euler's method for dy/dx = k*y (src/app.py): the Calculate handler of   *)
(* main(), the stepping loop of eulers_method(), analytical_solution() and *)
(* the error metrics.                                                      *)
(*                                                                         *)
(* Python's float is IEEE-754 binary64.  Every arithmetic operation of the *)
(* source is modelled as the exact operation followed by rounding to the   *)
(* nearest value with a 53-bit significand, ties to even.  TLC's integers  *)
(* are 32 bits wide, so significands are held as natural numbers written   *)
(* in base 2^15, least significant limb first.  The exponent range of      *)
(* binary64 (overflow to inf, subnormals), NaN and the sign of zero are    *)
(* not modelled: ValuesInRange states that no value of a checked run       *)
(* leaves the range of normal numbers.                                     *)
(***************************************************************************)
EXTENDS Integers, Sequences, FiniteSets, TLC

(***************************************************************************)
(* Natural numbers of any size: sequences of limbs, least significant      *)
(* first, without leading zero limbs; <<>> is zero.                        *)
(***************************************************************************)
Base == 2^15

RECURSIVE SmallBitLen(_)
SmallBitLen(n) == IF n = 0 THEN 0 ELSE 1 + SmallBitLen(n \div 2)

LimbBits == SmallBitLen(Base - 1)

Limb(a, i) == IF i <= Len(a) THEN a[i] ELSE 0
Rest(a) == IF a = <<>> THEN a ELSE Tail(a)

RECURSIVE BNorm(_)
BNorm(a) ==
  IF a = <<>> THEN a
  ELSE IF a[Len(a)] = 0 THEN BNorm(SubSeq(a, 1, Len(a) - 1)) ELSE a

RECURSIVE BigOf(_)
BigOf(n) == IF n = 0 THEN <<>> ELSE <<n % Base>> \o BigOf(n \div Base)

RECURSIVE BAddC(_, _, _)
BAddC(a, b, c) ==
  IF a = <<>> /\ b = <<>> THEN (IF c = 0 THEN <<>> ELSE <<c>>)
  ELSE <<(Limb(a, 1) + Limb(b, 1) + c) % Base>>
       \o BAddC(Rest(a), Rest(b), (Limb(a, 1) + Limb(b, 1) + c) \div Base)

BAdd(a, b) == BAddC(a, b, 0)

RECURSIVE BSubB(_, _, _)
BSubB(a, b, br) ==
  IF a = <<>> THEN <<>>
  ELSE <<(a[1] - Limb(b, 1) - br + Base) % Base>>
       \o BSubB(Tail(a), Rest(b), IF a[1] - Limb(b, 1) - br < 0 THEN 1 ELSE 0)

\* a - b for a >= b
BSub(a, b) == BNorm(BSubB(a, b, 0))

RECURSIVE BCmpAt(_, _, _)
BCmpAt(a, b, i) ==
  IF i = 0 THEN 0
  ELSE IF a[i] > b[i] THEN 1
  ELSE IF a[i] < b[i] THEN -1
  ELSE BCmpAt(a, b, i - 1)

\* -1, 0, 1 as a < b, a = b, a > b
BCmp(a, b) ==
  IF Len(a) # Len(b) THEN (IF Len(a) > Len(b) THEN 1 ELSE -1)
  ELSE BCmpAt(a, b, Len(a))

RECURSIVE BMulSmallC(_, _, _)
BMulSmallC(a, d, c) ==
  IF a = <<>> THEN (IF c = 0 THEN <<>> ELSE <<c>>)
  ELSE <<(a[1] * d + c) % Base>> \o BMulSmallC(Tail(a), d, (a[1] * d + c) \div Base)

\* a * d for a limb d
BMulSmall(a, d) == IF d = 0 THEN <<>> ELSE BMulSmallC(a, d, 0)

RECURSIVE ZeroLimbs(_)
ZeroLimbs(n) == IF n = 0 THEN <<>> ELSE <<0>> \o ZeroLimbs(n - 1)

RECURSIVE BMul(_, _)
\* a * b, by halves of b
BMul(a, b) ==
  IF a = <<>> \/ b = <<>> THEN <<>>
  ELSE IF Len(b) = 1 THEN BMulSmall(a, b[1])
  ELSE BAdd(BMul(a, SubSeq(b, 1, Len(b) \div 2)),
            ZeroLimbs(Len(b) \div 2)
              \o BMul(a, SubSeq(b, Len(b) \div 2 + 1, Len(b))))

\* a * 2^n
BShl(a, n) ==
  IF a = <<>> THEN a
  ELSE ZeroLimbs(n \div LimbBits) \o BMulSmallC(a, 2^(n % LimbBits), 0)

RECURSIVE BShrBits(_, _)
\* floor(a / 2^r) for r < LimbBits, leading zero limbs kept
BShrBits(a, r) ==
  IF a = <<>> THEN a
  ELSE <<(a[1] \div 2^r) + (Limb(a, 2) % 2^r) * 2^(LimbBits - r)>>
       \o BShrBits(Tail(a), r)

\* floor(a / 2^n)
BShr(a, n) ==
  LET q == n \div LimbBits
  IN  IF q >= Len(a) THEN <<>>
      ELSE BNorm(BShrBits(SubSeq(a, q + 1, Len(a)), n % LimbBits))

\* the number of bits of a: 0 for zero, else floor(log2 a) + 1
BitLen(a) ==
  IF a = <<>> THEN 0 ELSE LimbBits * (Len(a) - 1) + SmallBitLen(a[Len(a)])

RECURSIVE SmallTZ(_)
SmallTZ(n) == IF n % 2 = 1 THEN 0 ELSE 1 + SmallTZ(n \div 2)

RECURSIVE BTrailingZeros(_)
\* the number of trailing zero bits of a > 0
BTrailingZeros(a) ==
  IF a[1] = 0 THEN LimbBits + BTrailingZeros(Tail(a)) ELSE SmallTZ(a[1])

BOdd(a) == a # <<>> /\ a[1] % 2 = 1

RECURSIVE BDigit(_, _, _, _)
\* the largest d in lo..hi with b * d <= r, given b * lo <= r < b * (hi + 1)
BDigit(r, b, lo, hi) ==
  IF lo = hi THEN lo
  ELSE LET mid == (lo + hi + 1) \div 2
       IN  IF BCmp(BMulSmall(b, mid), r) <= 0
           THEN BDigit(r, b, mid, hi)
           ELSE BDigit(r, b, lo, mid - 1)

\* one step of long division: up = <<quotient, remainder>> of the limbs above,
\* limb the next limb down
BDivStep(up, limb, b) ==
  IF up[2] = <<>> /\ limb = 0 THEN <<IF up[1] = <<>> THEN <<>> ELSE <<0>> \o up[1], <<>>>>
  ELSE LET r1 == BNorm(<<limb>> \o up[2])
           d  == BDigit(r1, b, 0, Base - 1)
       IN  <<BNorm(<<d>> \o up[1]), BSub(r1, BMulSmall(b, d))>>

RECURSIVE BDivModAt(_, _, _)
\* <<quotient, remainder>> of limbs i..Len(a) of a divided by b > 0
BDivModAt(a, b, i) ==
  IF i > Len(a) THEN <<<<>>, <<>>>>
  ELSE BDivStep(BDivModAt(a, b, i + 1), a[i], b)

RECURSIVE BDivSmallC(_, _, _, _)
\* the quotient of (r * Base^i + limbs 1..i of a) by a limb d > r
BDivSmallC(a, d, i, r) ==
  IF i = 0 THEN <<>>
  ELSE IF r * Base + a[i] < d THEN BDivSmallC(a, d, i - 1, a[i]) \o <<0>>
  ELSE BDivSmallC(a, d, i - 1, (r * Base + a[i]) % d)
         \o <<(r * Base + a[i]) \div d>>

\* <<quotient, remainder>> of a divided by b > 0
BDivMod(a, b) ==
  IF Len(b) = 1
  THEN LET q == BNorm(BDivSmallC(a, b[1], Len(a), 0))
       IN  <<q, BSub(a, BMulSmall(q, b[1]))>>
  ELSE BDivModAt(a, b, 1)

\* the value of a number of at most two limbs
BToInt(a) == Limb(a, 1) + Limb(a, 2) * Base

(***************************************************************************)
(* Binary floating point.  A value is (-1)^neg * man * 2^exp with man odd, *)
(* or Zero.  Round(neg, m, e, sticky, p) is the value nearest to           *)
(* m * 2^e (plus a non-zero fraction of 2^e below it when sticky) that has *)
(* a significand of at most p bits, ties to even.                          *)
(***************************************************************************)
Prec == 53

Zero == [neg |-> FALSE, man |-> <<>>, exp |-> 0]

Mk(neg, m, e) ==
  IF m = <<>> THEN Zero
  ELSE LET tz == BTrailingZeros(m)
       IN  [neg |-> neg, man |-> BShr(m, tz), exp |-> e + tz]

Round(neg, m, e, sticky, p) ==
  LET sh == BitLen(m) - p
  IN  IF sh <= 0 THEN Mk(neg, m, e)
      ELSE LET q   == BShr(m, sh)
               rem == BSub(m, BShl(q, sh))
               c   == BCmp(rem, BShl(<<1>>, sh - 1))
               up  == c > 0 \/ (c = 0 /\ (sticky \/ BOdd(q)))
           IN  Mk(neg, IF up THEN BAdd(q, <<1>>) ELSE q, e + sh)

IsZero(a) == a.man = <<>>
Neg(a) == IF IsZero(a) THEN a ELSE [a EXCEPT !.neg = ~a.neg]
Abs(a) == [a EXCEPT !.neg = FALSE]

\* the exact sum, difference and product
XAdd(a, b) ==
  IF IsZero(a) THEN b
  ELSE IF IsZero(b) THEN a
  ELSE LET e  == IF a.exp < b.exp THEN a.exp ELSE b.exp
           ma == BShl(a.man, a.exp - e)
           mb == BShl(b.man, b.exp - e)
           c  == BCmp(ma, mb)
       IN  IF a.neg = b.neg THEN Mk(a.neg, BAdd(ma, mb), e)
           ELSE IF c = 0 THEN Zero
           ELSE IF c > 0 THEN Mk(a.neg, BSub(ma, mb), e)
           ELSE Mk(b.neg, BSub(mb, ma), e)

XSub(a, b) == XAdd(a, Neg(b))
XMul(a, b) == Mk(a.neg # b.neg, BMul(a.man, b.man), a.exp + b.exp)

RoundP(a, p) == Round(a.neg, a.man, a.exp, FALSE, p)

\* a / b for b # 0, rounded to p bits
DivP(a, b, p) ==
  IF IsZero(a) THEN Zero
  ELSE LET need == BitLen(b.man) + p + 2 - BitLen(a.man)
           s    == IF need > 0 THEN need ELSE 0
           qr   == BDivMod(BShl(a.man, s), b.man)
       IN  Round(a.neg # b.neg, qr[1], a.exp - b.exp - s, qr[2] # <<>>, p)

\* Python's float operators +, -, *, /
FAdd(a, b) == RoundP(XAdd(a, b), Prec)
FSub(a, b) == RoundP(XSub(a, b), Prec)
FMul(a, b) == RoundP(XMul(a, b), Prec)
FDiv(a, b) == DivP(a, b, Prec)

\* -1, 0, 1 as a < b, a = b, a > b
FCmp(a, b) ==
  LET d == XSub(a, b)
  IN  IF IsZero(d) THEN 0 ELSE IF d.neg THEN -1 ELSE 1

FLt(a, b) == FCmp(a, b) < 0
FLe(a, b) == FCmp(a, b) <= 0

\* the float of an integer literal n and of m * 2^e
FromInt(n) == IF n < 0 THEN Mk(TRUE, BigOf(-n), 0) ELSE Mk(FALSE, BigOf(n), 0)
Pow2(m, e) == [FromInt(m) EXCEPT !.exp = @ + e]

\* the float a decimal literal num/den denotes: the nearest to the quotient
Dec(num, den) == FDiv(FromInt(num), FromInt(den))

\* floor(|a|) as a natural number of any size
BFloor(a) ==
  IF a.exp >= 0 THEN BShl(a.man, a.exp) ELSE BShr(a.man, -a.exp)

\* Python's int(a): truncation toward zero (|a| < 2^30)
PyInt(a) == IF a.neg THEN -BToInt(BFloor(a)) ELSE BToInt(BFloor(a))

IsInteger(a) == a.exp >= 0

(***************************************************************************)
(* math.exp.  e^t is summed as a Taylor series on the argument halved      *)
(* until it is below 1/16, every term and sum kept to ExpBits bits, then   *)
(* squared back and rounded to Prec bits: the correctly rounded value      *)
(* unless e^t lies within 2^-76 of a rounding boundary.  math.exp raises   *)
(* OverflowError when the result exceeds the largest float, that is when   *)
(* t > ExpMax = 0x1.62e42fefa39efp+9 (709.782712893384).                   *)
(***************************************************************************)
ExpBits == 96

One == FromInt(1)

ExpMax == [neg |-> FALSE, man |-> <<14831, 32244, 14603, 177>>, exp |-> -43]

ExpOverflows(t) == FLt(ExpMax, t)

RECURSIVE ExpSum(_, _, _, _)
\* sum + term + term * r/(n+1) + ..., until a term no longer changes the sum
ExpSum(r, n, term, sum) ==
  LET next == RoundP(XAdd(sum, term), ExpBits)
  IN  IF next = sum THEN sum
      ELSE ExpSum(r, n + 1,
                  DivP(RoundP(XMul(term, r), ExpBits), FromInt(n + 1), ExpBits),
                  next)

RECURSIVE SquareN(_, _)
SquareN(a, s) ==
  IF s = 0 \/ IsZero(a) THEN a ELSE SquareN(RoundP(XMul(a, a), ExpBits), s - 1)

\* e^a for a > 0, to ExpBits bits
ExpAbs(a) ==
  LET top == BitLen(a.man) + a.exp
      s   == IF top + 4 > 0 THEN top + 4 ELSE 0
  IN  SquareN(ExpSum([a EXCEPT !.exp = @ - s], 0, One, Zero), s)

Exp(t) ==
  IF IsZero(t) THEN One
  ELSE IF t.neg THEN DivP(One, ExpAbs(Abs(t)), Prec)
  ELSE RoundP(ExpAbs(t), Prec)

(***************************************************************************)
(* Python's format(a, ".df"): a rounded to d decimals, ties to even on the *)
(* exact binary value.  The result is the number of units of 10^-d, with   *)
(* its sign.                                                               *)
(***************************************************************************)
Fmt(a, d) ==
  LET m   == BMul(a.man, BigOf(10^d))
      sh  == -a.exp
      q   == BShr(m, sh)
      rem == BSub(m, BShl(q, sh))
      c   == BCmp(rem, BShl(<<1>>, sh - 1))
      up  == c > 0 \/ (c = 0 /\ BOdd(q))
  IN  [neg   |-> a.neg,
       units |-> IF IsZero(a) THEN <<>>
                 ELSE IF sh <= 0 THEN BShl(m, a.exp)
                 ELSE IF up THEN BAdd(q, <<1>>) ELSE q]

\* the formatted text of a non-negative decimal given as an integer of units
Shown(n) == [neg |-> FALSE, units |-> BigOf(n)]

(***************************************************************************)
(* The functions of src/app.py.                                            *)
(***************************************************************************)

\* the limit on (x_target - x0) / h
MaxStepCount == 10000

\* the three checks of the Calculate handler
InvalidStepSize(h) == FLe(h, Zero)
\* InvalidRange were the comparison strict
InvalidRangeStrict(x0, x_target) == FLt(x_target, x0)
InvalidRange(x0, x_target) == FLe(x_target, x0)
\* StepCountExceeded were the limit itself refused
StepCountReached(x0, x_target, h) ==
  FLe(FromInt(MaxStepCount), FDiv(FSub(x_target, x0), h))
StepCountExceeded(x0, x_target, h) ==
  FLt(FromInt(MaxStepCount), FDiv(FSub(x_target, x0), h))

\* what st.error shows when a check fails, "" when none does
Rejection(x0, x_target, h) ==
  IF InvalidStepSize(h) THEN "Step size must be positive!"
  ELSE IF InvalidRange(x0, x_target)
    THEN "Target x value must be greater than initial x value!"
  ELSE IF StepCountExceeded(x0, x_target, h)
    THEN "Too many steps! Please increase step size or decrease target range."
  ELSE ""

\* the range the step size widget allows
StepSizeAllowed(h) == FLe(Dec(1, 1000), h) /\ FLe(h, One)

\* eulers_method
\* NumSteps were the quotient rounded up
NumStepsCeil(x0, x_target, h) == PyInt(FDiv(FSub(x_target, x0), h)) + 1
NumSteps(x0, x_target, h) == PyInt(FDiv(FSub(x_target, x0), h))
Slope(k, y_current) == FMul(k, y_current)
XNext(x_current, h) == FAdd(x_current, h)
\* YNext were the step size left out
YNextUnscaled(y_current, h, slope) == FAdd(y_current, slope)
YNext(y_current, h, slope) == FAdd(y_current, FMul(h, slope))

\* row i of the step table
Row(i, xs, ys, ss) ==
  [Step  |-> i,
   x_n   |-> xs[i + 1],
   y_n   |-> ys[i + 1],
   slope |-> ss[i + 1],
   y_n1  |-> ys[i + 2]]

Table(n, xs, ys, ss) == [j \in 1..n |-> Row(j - 1, xs, ys, ss)]

\* the same step without rounding
SlopeExact(k, y) == XMul(k, y)
XNextExact(x, h) == XAdd(x, h)
\* YNextExact were the step size left out
YNextExactUnscaled(y, h, slope) == XAdd(y, slope)
YNextExact(y, h, slope) == XAdd(y, XMul(h, slope))

\* analytical_solution; math.exp raises OverflowError("math range error")
MathRangeError(k, x0, x) == ExpOverflows(FMul(k, FSub(x, x0)))
AnalyticalSolution(k, x0, y0, x) == FMul(y0, Exp(FMul(k, FSub(x, x0))))

\* the error metrics
AbsoluteError(analytical_y, final_y) == Abs(FSub(analytical_y, final_y))
\* RelativeError were it left a fraction
RelativeErrorFraction(error, analytical_y) ==
  IF ~IsZero(analytical_y) THEN FDiv(error, Abs(analytical_y)) ELSE Zero
RelativeError(error, analytical_y) ==
  IF ~IsZero(analytical_y)
  THEN FMul(FDiv(error, Abs(analytical_y)), FromInt(100))
  ELSE Zero

Last(s) == s[Len(s)]

(***************************************************************************)
(* One click on Calculate.  The widgets hold k, x0, y0, x_target and h;    *)
(* pc is the position in the handler:                                      *)
(*   "button"        the click is about to be handled                      *)
(*   "eulers_method" the checks passed, eulers_method is called            *)
(*   "loop"          at the head of the stepping loop, i iterations done   *)
(*   "returned"      eulers_method has returned                            *)
(*   "metrics"       the analytical value is known                         *)
(*   "done"          the metrics are shown                                 *)
(*   "rejected"      a check failed, message shown                         *)
(*   "failed"        an exception was caught, message shown                *)
(* None and -1 stand for a name not yet bound.  x_exact and y_exact follow *)
(* the loop without rounding.                                              *)
(***************************************************************************)
VARIABLES
  pc, k, x0, y0, x_target, h, message,
  num_steps, x_values, y_values, slopes, x_current, y_current, i, df,
  x_exact, y_exact,
  final_x, final_y, analytical_y, error, relative_error, shown

vars ==
  <<pc, k, x0, y0, x_target, h, message,
    num_steps, x_values, y_values, slopes, x_current, y_current, i, df,
    x_exact, y_exact,
    final_x, final_y, analytical_y, error, relative_error, shown>>

inputs == <<k, x0, y0, x_target, h>>
loop == <<num_steps, x_values, y_values, slopes, x_current, y_current, i,
          x_exact, y_exact>>
results == <<final_x, final_y, analytical_y, error, relative_error, shown>>

None == [neg |-> FALSE, man |-> <<>>, exp |-> -1]

\* the longest loop that is followed to its end
MaxSteps == 10

Ks == {One, FromInt(-3), FromInt(1000)}
X0s == {Zero, Pow2(1, 53)}
Y0s == {Zero, One, FromInt(-2)}
Targets ==
  {Zero, FMul(FromInt(3), Dec(1, 10)), One, Dec(189, 100), FromInt(10000),
   FAdd(Pow2(1, 53), FromInt(2))}
StepSizes == {FromInt(-1), Zero, Dec(1, 10), Pow2(1, -1), Dec(63, 100), One}

Start(hs) ==
  /\ pc = "button"
  /\ k \in Ks
  /\ x0 \in X0s
  /\ y0 \in Y0s
  /\ x_target \in Targets
  /\ h \in hs
  /\ message = ""
  /\ num_steps = -1
  /\ x_values = <<>>
  /\ y_values = <<>>
  /\ slopes = <<>>
  /\ x_current = None
  /\ y_current = None
  /\ i = -1
  /\ df = <<>>
  /\ x_exact = <<>>
  /\ y_exact = <<>>
  /\ final_x = None
  /\ final_y = None
  /\ analytical_y = None
  /\ error = None
  /\ relative_error = None
  /\ shown = <<>>

\* the step size comes from its widget
Init == Start({v \in StepSizes : StepSizeAllowed(v)})

\* the step size is any number
InitAnyStepSize == Start(StepSizes)

Calculate ==
  /\ pc = "button"
  /\ message' = Rejection(x0, x_target, h)
  /\ pc' = IF message' = "" THEN "eulers_method" ELSE "rejected"
  /\ UNCHANGED <<inputs, loop, df, results>>

EulerInit ==
  /\ pc = "eulers_method"
  /\ num_steps' = NumSteps(x0, x_target, h)
  /\ x_values' = <<x0>>
  /\ y_values' = <<y0>>
  /\ slopes' = <<>>
  /\ x_current' = x0
  /\ y_current' = y0
  /\ i' = 0
  /\ x_exact' = <<x0>>
  /\ y_exact' = <<y0>>
  /\ pc' = "loop"
  /\ UNCHANGED <<inputs, message, df, results>>

EulerStep ==
  /\ pc = "loop"
  /\ i < num_steps
  /\ num_steps <= MaxSteps
  /\ LET slope  == Slope(k, y_current)
         x_next == XNext(x_current, h)
         y_next == YNext(y_current, h, slope)
     IN  /\ slopes' = Append(slopes, slope)
         /\ x_values' = Append(x_values, x_next)
         /\ y_values' = Append(y_values, y_next)
         /\ x_current' = x_next
         /\ y_current' = y_next
  /\ x_exact' = Append(x_exact, XNextExact(Last(x_exact), h))
  /\ y_exact' = Append(y_exact,
                       YNextExact(Last(y_exact), h, SlopeExact(k, Last(y_exact))))
  /\ i' = i + 1
  /\ UNCHANGED <<pc, inputs, message, num_steps, df, results>>

EulerTable ==
  /\ pc = "loop"
  /\ i = num_steps
  /\ df' = Table(num_steps, x_values, y_values, slopes)
  /\ final_x' = Last(x_values)
  /\ final_y' = Last(y_values)
  /\ pc' = "returned"
  /\ UNCHANGED <<inputs, message, loop, analytical_y, error, relative_error, shown>>

Analytical ==
  /\ pc = "returned"
  /\ IF MathRangeError(k, x0, final_x)
     THEN /\ message' = "An error occurred during calculation: math range error"
          /\ pc' = "failed"
          /\ UNCHANGED analytical_y
     ELSE /\ analytical_y' = AnalyticalSolution(k, x0, y0, final_x)
          /\ pc' = "metrics"
          /\ UNCHANGED message
  /\ UNCHANGED <<inputs, loop, df, final_x, final_y, error, relative_error, shown>>

Metrics ==
  /\ pc = "metrics"
  /\ error' = AbsoluteError(analytical_y, final_y)
  /\ relative_error' = RelativeError(error', analytical_y)
  /\ shown' = [final_y        |-> Fmt(final_y, 6),
               analytical_y   |-> Fmt(analytical_y, 6),
               error          |-> Fmt(error', 6),
               relative_error |-> Fmt(relative_error', 2)]
  /\ pc' = "done"
  /\ UNCHANGED <<inputs, message, loop, df, final_x, final_y, analytical_y>>

Next ==
  \/ Calculate
  \/ EulerInit
  \/ EulerStep
  \/ EulerTable
  \/ Analytical
  \/ Metrics

Spec == Init /\ [][Next]_vars
SpecAnyStepSize == InitAnyStepSize /\ [][Next]_vars

(***************************************************************************)
(* Properties.                                                             *)
(***************************************************************************)

\* no number of the run leaves the range of normal binary64 numbers
Normal(a) ==
  \/ a = None
  \/ IsZero(a)
  \/ (BitLen(a.man) + a.exp > -1022 /\ BitLen(a.man) + a.exp <= 1024)

ValuesInRange ==
  /\ \A a \in {x_current, y_current, final_x, final_y, analytical_y, error,
               relative_error} : Normal(a)
  /\ \A j \in 1..Len(x_values) : Normal(x_values[j]) /\ Normal(y_values[j])
  /\ \A j \in 1..Len(slopes) : Normal(slopes[j])

\* the handler is past the checks, inside or past the loop, past eulers_method
Validated ==
  pc \in {"eulers_method", "loop", "returned", "metrics", "done", "failed"}
Entered == pc \in {"loop", "returned", "metrics", "done", "failed"}
Returned == pc \in {"returned", "metrics", "done", "failed"}

\* (x_target - x0) / h as line 23 and line 136 compute it, for h # 0
Quotient == FDiv(FSub(x_target, x0), h)

Positive(a) == ~IsZero(a) /\ ~a.neg

\* nothing of a computation exists
NothingProduced ==
  /\ num_steps = -1
  /\ i = -1
  /\ x_values = <<>>
  /\ y_values = <<>>
  /\ slopes = <<>>
  /\ df = <<>>
  /\ x_current = None
  /\ y_current = None
  /\ final_x = None
  /\ final_y = None
  /\ analytical_y = None
  /\ error = None
  /\ relative_error = None
  /\ shown = <<>>

(* C1: once eulers_method has returned, x_values and y_values have         *)
(* num_steps + 1 elements each, the step table has num_steps rows whose    *)
(* Step fields are 0, 1, ..., num_steps - 1 in order, and num_steps is the *)
(* floor of the quotient (x_target - x0) / h the code computes:            *)
(* num_steps <= quotient < num_steps + 1.  The floor holds from the moment *)
(* num_steps is set.                                                       *)
C1_Lengths ==
  /\ Entered =>
       /\ FLe(FromInt(num_steps), Quotient)
       /\ FLt(Quotient, FromInt(num_steps + 1))
  /\ Returned =>
       /\ Len(x_values) = num_steps + 1
       /\ Len(y_values) = num_steps + 1
       /\ Len(df) = num_steps
       /\ \A j \in 1..Len(df) : df[j].Step = j - 1

\* C1 witness: a run returned three steps for a quotient that is no integer
C1_Witness ==
  /\ pc = "returned"
  /\ num_steps = 3
  /\ Len(df) = 3
  /\ ~IsInteger(Quotient)

(* C2: a request with h <= 0 is refused with the step size message, one    *)
(* with h > 0 and x_target <= x0 with the range message, one with h > 0,   *)
(* x_target > x0 and a quotient above MaxStepCount with the step count     *)
(* message; the three messages differ from each other; a refused request   *)
(* is refused for one of these reasons and produces nothing: num_steps is  *)
(* never set, no trajectory point, slope, table row, analytical value or   *)
(* metric exists, and eulers_method is never entered.                      *)
C2_Rejections ==
  LET size  == "Step size must be positive!"
      range == "Target x value must be greater than initial x value!"
      count == "Too many steps! Please increase step size or decrease target range."
  IN  /\ size # range /\ size # count /\ range # count
      /\ pc # "button" =>
           /\ ~Positive(h) => pc = "rejected" /\ message = size
           /\ Positive(h) /\ FLe(x_target, x0) =>
                pc = "rejected" /\ message = range
           /\ Positive(h) /\ FLt(x0, x_target)
                /\ FLt(FromInt(MaxStepCount), Quotient) =>
                pc = "rejected" /\ message = count
      /\ pc = "rejected" =>
           /\ message \in {size, range, count}
           /\ NothingProduced
      /\ message \in {size, range, count} => pc = "rejected"

\* C2 witness: a request with a step size that is not positive was refused
C2_Witness ==
  /\ pc = "rejected"
  /\ ~Positive(h)
  /\ message = "Step size must be positive!"
  /\ NothingProduced

(* C3: the trajectory starts at (x0, y0); row i of the step table holds    *)
(* x_values[i], y_values[i], the product k * y_values[i] as its slope and  *)
(* y_values[i] + h * slope as its next y, that next y is y_values[i + 1],  *)
(* and it is the y of the following row.                                   *)
C3_StepRecords ==
  /\ Entered => x_values[1] = x0 /\ y_values[1] = y0
  /\ Returned =>
       \A j \in 1..num_steps :
         /\ df[j].x_n = x_values[j]
         /\ df[j].y_n = y_values[j]
         /\ df[j].slope = FMul(k, y_values[j])
         /\ df[j].y_n1 = FAdd(y_values[j], FMul(h, df[j].slope))
         /\ df[j].y_n1 = y_values[j + 1]
         /\ j < num_steps => df[j].y_n1 = df[j + 1].y_n

\* C3 witness: a table of ten rows whose values were rounded on the way
C3_Witness ==
  /\ pc = "returned"
  /\ num_steps = 10
  /\ Len(df) = 10
  /\ y_values # y_exact
  /\ df[10].y_n1 = final_y

(* C4: consecutive x-values differ by h and are strictly increasing:       *)
(* x_values[i + 1] = x_values[i] + h and x_values[i] < x_values[i + 1].    *)
(* Refuted: the sum x_values[i] + h is rounded, and from x0 = 2^53 with    *)
(* h = 1 it is rounded back to x_values[i].                                *)
C4_StrictlyIncreasing ==
  \A j \in 1..(Len(x_values) - 1) :
    /\ x_values[j + 1] = FAdd(x_values[j], h)
    /\ FLt(x_values[j], x_values[j + 1])

(* C5: once eulers_method has returned, the last x is at most x_target and *)
(* less than h below it: 0 <= x_target - final_x < h, the difference taken *)
(* without rounding.  Refuted: 0.63 added three times to 0 passes 1.89.    *)
C5_NoOvershoot ==
  Returned =>
    /\ FLe(final_x, x_target)
    /\ FLt(XSub(x_target, final_x), h)

(* C6: every computation that passed the checks and ran to its end reports *)
(* error = |analytical_y - final_y| and relative_error = error /            *)
(* |analytical_y| * 100, or 0 when analytical_y = 0; with y0 = 0 the       *)
(* relative error reported is 0.  Refuted: with k = 1000 math.exp raises   *)
(* and no metric is reported at all, whatever y0 is.                       *)
C6_ErrorMetrics ==
  pc \in {"done", "failed"} =>
    /\ pc = "done"
    /\ error = Abs(FSub(analytical_y, final_y))
    /\ IsZero(analytical_y) => IsZero(relative_error)
    /\ ~IsZero(analytical_y) =>
         relative_error = FMul(FDiv(error, Abs(analytical_y)), FromInt(100))
    /\ IsZero(y0) => IsZero(relative_error)
    /\ shown.relative_error = Fmt(relative_error, 2)

\* the run of the worked example: k = 1, x0 = 0, y0 = 1, x_target = 1, h = 0.1
Scenario ==
  /\ k = One
  /\ x0 = Zero
  /\ y0 = One
  /\ x_target = One
  /\ h = Dec(1, 10)

(* C7, as amended: the worked example takes exactly 10 steps and shows     *)
(* final y 2.593742, analytical y 2.718282, absolute error 0.124539 and    *)
(* relative error 4.58%.                                                   *)
C7_Scenario ==
  Scenario /\ pc = "done" =>
    /\ num_steps = 10
    /\ i = 10
    /\ Len(slopes) = 10
    /\ shown.final_y = Shown(2593742)
    /\ shown.analytical_y = Shown(2718282)
    /\ shown.error = Shown(124539)
    /\ shown.relative_error = Shown(458)

(* C7, as stated: the same with absolute error 0.124540.                   *)
C7_AsStated ==
  Scenario /\ pc = "done" =>
    /\ num_steps = 10
    /\ shown.final_y = Shown(2593742)
    /\ shown.analytical_y = Shown(2718282)
    /\ shown.error = Shown(124540)
    /\ shown.relative_error = Shown(458)

\* C7 witness: the worked example ran to its end
C7_Witness ==
  /\ Scenario
  /\ pc = "done"
  /\ Len(y_values) = 11
  /\ shown.final_y = Fmt(y_values[11], 6)

(* C8: a computation that passes the checks has a quotient of at most      *)
(* MaxStepCount and a quotient of exactly MaxStepCount passes them; one    *)
(* with a larger quotient is refused before num_steps is set; num_steps is *)
(* in 0..MaxStepCount; the loop has run i <= num_steps iterations, one     *)
(* slope per iteration, and it ends after exactly num_steps of them.       *)
C8_StepCount ==
  /\ Validated => FLe(Quotient, FromInt(MaxStepCount))
  /\ pc # "button" /\ Positive(h) /\ FLt(x0, x_target) =>
       /\ Quotient = FromInt(MaxStepCount) => Validated
       /\ FLt(FromInt(MaxStepCount), Quotient) =>
            pc = "rejected" /\ num_steps = -1 /\ i = -1
  /\ Entered =>
       /\ num_steps \in 0..MaxStepCount
       /\ i \in 0..num_steps
       /\ Len(slopes) = i
       /\ Len(x_values) = i + 1
  /\ Returned => i = num_steps

\* C8 witness: a loop of as many steps as are followed ended
C8_Witness ==
  /\ pc = "returned"
  /\ num_steps = MaxSteps
  /\ i = MaxSteps
  /\ Len(slopes) = MaxSteps

(* C9: the analytical value is taken at the last x of the trajectory;      *)
(* whenever the quotient is no integer that x differs from x_target; and   *)
(* when x_target - x0 < h no step is taken: the comparison is made at x0   *)
(* and the approximation is y0.  Refuted: 0.1 added three times to 0 gives *)
(* 0.30000000000000004, which is x_target, while the quotient is           *)
(* 3.0000000000000004.                                                     *)
C9_ComparisonPoint ==
  /\ pc \in {"metrics", "done"} =>
       /\ final_x = Last(x_values)
       /\ analytical_y = FMul(y0, Exp(FMul(k, FSub(final_x, x0))))
  /\ Returned /\ ~IsInteger(Quotient) => final_x # x_target
  /\ Returned /\ FLt(XSub(x_target, x0), h) =>
       num_steps = 0 /\ final_x = x0 /\ final_y = y0

RECURSIVE XPow(_, _)
\* a^n without rounding
XPow(a, n) == IF n = 0 THEN One ELSE XMul(a, XPow(a, n - 1))

Sign(a) == IF IsZero(a) THEN 0 ELSE IF a.neg THEN -1 ELSE 1

\* no operation of the loop so far was rounded
NoRounding ==
  \A j \in 1..Len(slopes) :
    /\ x_values[j + 1] = XAdd(x_values[j], h)
    /\ slopes[j] = XMul(k, y_values[j])
    /\ y_values[j + 1] = XAdd(y_values[j], XMul(h, slopes[j]))

(* C10: without rounding the trajectory is its closed form: for every n    *)
(* reached, x_n = x0 + n * h and y_n = y0 * (1 + h * k)^n; if y0 = 0 every *)
(* y_n and every slope is 0; if 1 + h * k > 0 every y_n has the sign of    *)
(* y0.  A run of the program in which no operation was rounded is that     *)
(* trajectory, and with y0 = 0 the program's y-values and slopes are 0.    *)
C10_ClosedForm ==
  Entered =>
    /\ Len(x_exact) = i + 1
    /\ Len(y_exact) = i + 1
    /\ \A n \in 0..i :
         /\ x_exact[n + 1] = XAdd(x0, XMul(FromInt(n), h))
         /\ y_exact[n + 1] = XMul(y0, XPow(XAdd(One, XMul(h, k)), n))
         /\ IsZero(y0) =>
              IsZero(y_exact[n + 1]) /\ IsZero(XMul(k, y_exact[n + 1]))
         /\ Positive(XAdd(One, XMul(h, k))) => Sign(y_exact[n + 1]) = Sign(y0)
    /\ NoRounding => x_values = x_exact /\ y_values = y_exact
    /\ IsZero(y0) =>
         /\ \A j \in 1..Len(y_values) : IsZero(y_values[j])
         /\ \A j \in 1..Len(slopes) : IsZero(slopes[j])

\* C10 witness: three steps without any rounding, from y0 # 0 with k < 0
C10_Witness ==
  /\ pc = "returned"
  /\ num_steps = 3
  /\ k.neg
  /\ ~IsZero(y0)
  /\ NoRounding
  /\ y_values = y_exact
  /\ y_values[4] # y0

====
